---- MODULE Spec2Model ----
(* The TodoMVC example of yew: the Model (entries, filter, value), the      *)
(* reducer `update` and the queries the view calls, as a state machine.     *)
(* Every action is one dispatch of a Msg to `update`.                       *)
EXTENDS Naturals, Sequences, FiniteSets

\* ---------------------------------------------------------------- bounds
\* longest entry list explored (Add is disabled beyond it)
MaxEntries == 3

\* the texts the input box can hold
Drafts == {"", "a", "b"}

\* indices a Msg::Remove / Msg::Toggle can carry (usize, 0-based); one past
\* the longest list so that out-of-range indices are dispatched too
Indices == 0..MaxEntries

\* ------------------------------------------------------------ data types
\* enum Filter
Filter == {"All", "Active", "Completed"}

\* struct Entry
Entry(description, completed) ==
    [description |-> description, completed |-> completed]

\* enum Msg, as a record with every field present (unused ones defaulted)
Msg(type, idx, val, flt) == [type |-> type, idx |-> idx, val |-> val, filter |-> flt]

\* struct Model
Model(es, f, v) == [entries |-> es, filter |-> f, value |-> v]

\* result of one call of update: the model after it, and whether it panicked
Outcome(es, f, v, p) == [entries |-> es, filter |-> f, value |-> v, panicked |-> p]

\* ------------------------------------------------------- pure functions
\* fit with the Active and Completed arms exchanged
fit_swapped(f, entry) ==
    CASE f = "All" -> TRUE
      [] f = "Active" -> entry.completed
      [] f = "Completed" -> ~entry.completed

\* Filter::fit
fit(f, entry) ==
    CASE f = "All" -> TRUE
      [] f = "Active" -> ~entry.completed
      [] f = "Completed" -> entry.completed

\* entries.iter().filter(|e| f.fit(e)): the storage positions (1-based) of
\* the entries that fit, in storage order
FitPositions(es, f) ==
    LET S == {k \in 1..Len(es) : fit(f, es[k])}
    IN  [i \in 1..Cardinality(S) |->
            CHOOSE k \in S : Cardinality({j \in S : j < k}) = i - 1]

\* view_entries that numbers each row with its storage index
view_entries_storage_idx(es, f) ==
    LET pos == FitPositions(es, f)
    IN  [i \in 1..Len(pos) |-> <<pos[i] - 1, es[pos[i]]>>]

\* view_entries: the filtered entries, enumerated (0-based idx, entry)
view_entries(es, f) ==
    LET pos == FitPositions(es, f)
    IN  [i \in 1..Len(pos) |-> <<i - 1, es[pos[i]]>>]

\* Vec::remove(idx) for an index in range (0-based): shifts the rest down
VecRemove(es, idx) ==
    [k \in 1..(Len(es) - 1) |-> IF k <= idx THEN es[k] ELSE es[k + 1]]

\* Model::total
total(es) == Len(es)

\* Model::total_completed
total_completed(es) == Len(FitPositions(es, "Completed"))

\* is_all_completed without the test for an empty filtered list
is_all_completed_vacuous(es, f) ==
    LET pos == FitPositions(es, f)
    IN  \A i \in 1..Len(pos) : es[pos[i]].completed

\* is_all_completed that folds over all entries, not the filtered ones
is_all_completed_unfiltered(es, f) ==
    IF Len(es) = 0
    THEN FALSE
    ELSE \A k \in 1..Len(es) : es[k].completed

\* Model::is_all_completed
is_all_completed(es, f) ==
    LET pos == FitPositions(es, f)
    IN  IF Len(pos) = 0
        THEN FALSE
        ELSE \A i \in 1..Len(pos) : es[pos[i]].completed

\* toggle_all that forgets the filter test and writes every entry
toggle_all_unfiltered(es, f, value) ==
    [k \in 1..Len(es) |-> Entry(es[k].description, value)]

\* Model::toggle_all
toggle_all(es, f, value) ==
    [k \in 1..Len(es) |->
        IF fit(f, es[k]) THEN Entry(es[k].description, value) ELSE es[k]]

\* clear_completed that keeps what fits Filter::Completed instead of Active
clear_completed_inverted(es) ==
    LET pos == FitPositions(es, "Completed")
    IN  [i \in 1..Len(pos) |-> es[pos[i]]]

\* clear_completed that drops only the first completed entry
clear_completed_first(es) ==
    LET pos == FitPositions(es, "Completed")
    IN  IF Len(pos) = 0 THEN es
        ELSE [k \in 1..(Len(es) - 1) |-> IF k < pos[1] THEN es[k] ELSE es[k + 1]]

\* Model::clear_completed
clear_completed(es) ==
    LET pos == FitPositions(es, "Active")
    IN  [i \in 1..Len(pos) |-> es[pos[i]]]

\* view (footer): the number rendered in front of " item(s) left"
view_todo_count(es) == total(es)

\* view (footer): the number rendered in "Clear completed (n)"
view_clear_completed_count(es) == total_completed(es)

\* ------------------------------------------------- the arms of `update`
\* Add that leaves the draft in the input box
update_Add_keeps_value(m) ==
    Outcome(Append(m.entries, Entry(m.value, FALSE)), m.filter, m.value, FALSE)

\* Add that inserts the new entry at the front
update_Add_front(m) ==
    Outcome(<<Entry(m.value, FALSE)>> \o m.entries, m.filter, "", FALSE)

\* Msg::Add
update_Add(m) ==
    Outcome(Append(m.entries, Entry(m.value, FALSE)), m.filter, "", FALSE)

\* Msg::Update(val)
update_Update(m, val) ==
    Outcome(m.entries, m.filter, val, FALSE)

\* Msg::Remove(idx): Vec::remove on the storage index, panics if idx >= len
update_Remove(m, idx) ==
    IF idx >= Len(m.entries)
    THEN Outcome(m.entries, m.filter, m.value, TRUE)
    ELSE Outcome(VecRemove(m.entries, idx), m.filter, m.value, FALSE)

\* SetFilter that also empties the draft
update_SetFilter_resets_value(m, f) ==
    Outcome(m.entries, f, "", FALSE)

\* Msg::SetFilter(filter)
update_SetFilter(m, f) ==
    Outcome(m.entries, f, m.value, FALSE)

\* ToggleAll that passes is_all_completed() on without negating it
update_ToggleAll_not_negated(m) ==
    LET status == is_all_completed(m.entries, m.filter)
    IN  Outcome(toggle_all(m.entries, m.filter, status), m.filter, m.value, FALSE)

\* Msg::ToggleAll
update_ToggleAll(m) ==
    LET status == ~is_all_completed(m.entries, m.filter)
    IN  Outcome(toggle_all(m.entries, m.filter, status), m.filter, m.value, FALSE)

\* Toggle that resolves idx against storage, as Remove does
update_Toggle_storage(m, idx) ==
    IF idx >= Len(m.entries)
    THEN Outcome(m.entries, m.filter, m.value, TRUE)
    ELSE Outcome([m.entries EXCEPT ![idx + 1].completed = ~@],
                 m.filter, m.value, FALSE)

\* Toggle that marks the entry completed instead of flipping it
update_Toggle_sets(m, idx) ==
    LET pos == FitPositions(m.entries, m.filter)
    IN  IF idx >= Len(pos)
        THEN Outcome(m.entries, m.filter, m.value, TRUE)
        ELSE Outcome([m.entries EXCEPT ![pos[idx + 1]].completed = TRUE],
                     m.filter, m.value, FALSE)

\* Msg::Toggle(idx): get_mut(idx) on the filtered list, unwrap panics on None
update_Toggle(m, idx) ==
    LET pos == FitPositions(m.entries, m.filter)
    IN  IF idx >= Len(pos)
        THEN Outcome(m.entries, m.filter, m.value, TRUE)
        ELSE Outcome([m.entries EXCEPT ![pos[idx + 1]].completed = ~@],
                     m.filter, m.value, FALSE)

\* Msg::ClearCompleted
update_ClearCompleted(m) ==
    Outcome(clear_completed(m.entries), m.filter, m.value, FALSE)

\* Nope that empties the draft, as Add does
update_Nope_clears_value(m) ==
    Outcome(m.entries, m.filter, "", FALSE)

\* Msg::Nope
update_Nope(m) ==
    Outcome(m.entries, m.filter, m.value, FALSE)

\* fn update
update(m, message) ==
    CASE message.type = "Add" -> update_Add(m)
      [] message.type = "Update" -> update_Update(m, message.val)
      [] message.type = "Remove" -> update_Remove(m, message.idx)
      [] message.type = "SetFilter" -> update_SetFilter(m, message.filter)
      [] message.type = "ToggleAll" -> update_ToggleAll(m)
      [] message.type = "Toggle" -> update_Toggle(m, message.idx)
      [] message.type = "ClearCompleted" -> update_ClearCompleted(m)
      [] message.type = "Nope" -> update_Nope(m)

\* ----------------------------------------------------------------- state
VARIABLES
    entries,    \* Model.entries
    filter,     \* Model.filter
    value,      \* Model.value (the draft)
    panicked,   \* the last update aborted the program
    msg,        \* the Msg last handed to update
    prev,       \* the Model as it was when that Msg was dispatched
    repeated,   \* the Msg before it was the same Msg
    drafts,     \* texts of the Update-then-Add pairs, while formOK
    formOK,     \* only Update and Add-after-Update were dispatched so far
    sinceClear  \* ClearCompleted was dispatched, and no Toggle/ToggleAll since

vars == <<entries, filter, value, panicked, msg, prev, repeated, drafts, formOK,
          sinceClear>>

Current == Model(entries, filter, value)

\* fn main: the model handed to program()
Init ==
    /\ entries = <<>>
    /\ filter = "All"
    /\ value = ""
    /\ panicked = FALSE
    /\ msg = Msg("Init", 0, "", "All")
    /\ prev = Model(<<>>, "All", "")
    /\ repeated = FALSE
    /\ drafts = <<>>
    /\ formOK = TRUE
    /\ sinceClear = FALSE

\* program(): one Msg goes through update; nothing runs after a panic
Dispatch(message) ==
    /\ ~panicked
    /\ LET r == update(Current, message)
       IN  /\ entries' = r.entries
           /\ filter' = r.filter
           /\ value' = r.value
           /\ panicked' = r.panicked
    /\ msg' = message
    /\ prev' = Current
    /\ repeated' = (msg = message)
    /\ formOK' = /\ formOK
                 /\ \/ message.type = "Update"
                    \/ message.type = "Add" /\ msg.type = "Update"
    /\ drafts' = IF ~formOK' THEN <<>>
                 ELSE IF message.type = "Add" THEN Append(drafts, msg.val)
                 ELSE drafts
    /\ sinceClear' = CASE message.type = "ClearCompleted" -> TRUE
                        [] message.type \in {"Toggle", "ToggleAll"} -> FALSE
                        [] OTHER -> sinceClear

Add ==
    /\ Len(entries) < MaxEntries
    /\ Dispatch(Msg("Add", 0, "", "All"))

Update == \E val \in Drafts : Dispatch(Msg("Update", 0, val, "All"))

Remove == \E idx \in Indices : Dispatch(Msg("Remove", idx, "", "All"))

SetFilter == \E f \in Filter : Dispatch(Msg("SetFilter", 0, "", f))

ToggleAll == Dispatch(Msg("ToggleAll", 0, "", "All"))

Toggle == \E idx \in Indices : Dispatch(Msg("Toggle", idx, "", "All"))

ClearCompleted == Dispatch(Msg("ClearCompleted", 0, "", "All"))

Nope == Dispatch(Msg("Nope", 0, "", "All"))

Next ==
    \/ Add
    \/ Update
    \/ Remove
    \/ SetFilter
    \/ ToggleAll
    \/ Toggle
    \/ ClearCompleted
    \/ Nope

Spec == Init /\ [][Next]_vars

\* view_entry: a row's destroy button sends Remove(idx) with the idx the view
\* enumerated for it
RemoveShown ==
    \E i \in 1..Len(view_entries(entries, filter)) :
        Dispatch(Msg("Remove", view_entries(entries, filter)[i][1], "", "All"))

\* view_entry: a row's checkbox sends Toggle(idx) with the idx the view
\* enumerated for it
ToggleShown ==
    \E i \in 1..Len(view_entries(entries, filter)) :
        Dispatch(Msg("Toggle", view_entries(entries, filter)[i][1], "", "All"))

\* the program driven through the rendered controls only
NextView ==
    \/ Add
    \/ Update
    \/ RemoveShown
    \/ SetFilter
    \/ ToggleAll
    \/ ToggleShown
    \/ ClearCompleted
    \/ Nope

SpecView == Init /\ [][NextView]_vars

\* ------------------------------------------------------------ type check
TypeOK ==
    /\ Len(entries) <= MaxEntries
    /\ \A k \in 1..Len(entries) :
          entries[k].description \in Drafts /\ entries[k].completed \in BOOLEAN
    /\ filter \in Filter
    /\ value \in Drafts
    /\ panicked \in BOOLEAN


\* ------------------------------------------- vocabulary of the properties
\* the filter predicate as the specification states it
Matches(f, e) ==
    \/ f = "All"
    \/ f = "Active" /\ e.completed = FALSE
    \/ f = "Completed" /\ e.completed = TRUE

\* number of entries the filtered view of (es, f) displays
Displayed(es, f) == Cardinality({k \in 1..Len(es) : Matches(f, es[k])})

\* storage position of the entry displayed at 0-based position i
DisplayedAt(es, f, i) ==
    CHOOSE k \in 1..Len(es) :
        /\ Matches(f, es[k])
        /\ Cardinality({j \in 1..(k - 1) : Matches(f, es[j])}) = i

\* es without the entry at storage position k
Without(es, k) == SubSeq(es, 1, k - 1) \o SubSeq(es, k + 1, Len(es))

\* the entries that are not completed, in order
ActiveOnly(es) == SelectSeq(es, LAMBDA e : ~e.completed)

\* same length and same descriptions, position by position
SameShape(es, old) ==
    /\ Len(es) = Len(old)
    /\ \A k \in 1..Len(old) : es[k].description = old[k].description

\* ------------------------------------------------------------------- C1
\* C1: Remove(i) with i valid in the filtered view removes exactly the entry
\* displayed at position i of that view; the others stay, in order.
C1_RemoveDisplayedEntry ==
    (msg.type = "Remove" /\ msg.idx < Displayed(prev.entries, prev.filter))
    => /\ ~panicked
       /\ entries = Without(prev.entries,
                            DisplayedAt(prev.entries, prev.filter, msg.idx))

\* ------------------------------------------------------------------- C2
\* C2: Remove(i) or Toggle(i) with i outside the filtered view is detected:
\* the operation aborts and no entry is removed or modified.
C2_OutOfRangeDetected ==
    (msg.type \in {"Remove", "Toggle"}
        /\ msg.idx >= Displayed(prev.entries, prev.filter))
    => /\ panicked
       /\ entries = prev.entries

\* ------------------------------------------------------------------- C3
\* C3 as stated: after ToggleAll, is_all_completed() under the same filter is
\* true exactly when the filtered subset was non-empty before.
C3_Original ==
    msg.type = "ToggleAll"
    => (is_all_completed(entries, filter)
            <=> Displayed(prev.entries, prev.filter) > 0)

\* C3 amended: after ToggleAll, is_all_completed() under the same filter is
\* true exactly when the filter is All and the filtered subset was non-empty
\* and not already all completed before; in every other case (subset empty,
\* all already completed, filter Active or Completed) it is false.
C3_ToggleAllThenAllCompleted ==
    msg.type = "ToggleAll"
    => (is_all_completed(entries, filter)
            <=> /\ prev.filter = "All"
                /\ Displayed(prev.entries, prev.filter) > 0
                /\ \E k \in 1..Len(prev.entries) : ~prev.entries[k].completed)

C3_Witness ==
    /\ msg.type = "ToggleAll"
    /\ filter = "All"
    /\ Len(entries) >= 2
    /\ \E k \in 1..Len(prev.entries) : prev.entries[k].completed
    /\ is_all_completed(entries, filter)

\* ------------------------------------------------------------------- C4
\* C4 as stated: Toggle(i) twice in a row, i valid before the first, restores
\* the entry list, under every filter.
C4_Original ==
    [][(/\ msg.type = "Toggle"
        /\ msg' = msg
        /\ msg.idx < Displayed(prev.entries, prev.filter))
       => entries' = prev.entries]_vars

\* C4 amended: under filter All, Toggle(i) twice in a row with i valid
\* restores the entry list to what it was before the two toggles.
C4_ToggleTwiceUnderAll ==
    [][(/\ msg.type = "Toggle"
        /\ msg' = msg
        /\ prev.filter = "All"
        /\ msg.idx < Displayed(prev.entries, prev.filter))
       => (~panicked' /\ entries' = prev.entries)]_vars

C4_Witness ==
    /\ msg.type = "Toggle"
    /\ repeated
    /\ ~panicked
    /\ filter = "All"
    /\ msg.idx > 0
    /\ Len(entries) >= 2

\* ------------------------------------------------------------------- C5
\* C5: Toggle(i) with i valid in the filtered view flips the completed flag
\* of the entry displayed at position i and changes nothing else.
C5_ToggleFlipsDisplayedEntry ==
    (msg.type = "Toggle" /\ msg.idx < Displayed(prev.entries, prev.filter))
    => /\ ~panicked
       /\ SameShape(entries, prev.entries)
       /\ \A k \in 1..Len(prev.entries) :
             entries[k].completed =
                IF k = DisplayedAt(prev.entries, prev.filter, msg.idx)
                THEN ~prev.entries[k].completed
                ELSE prev.entries[k].completed
       /\ filter = prev.filter
       /\ value = prev.value

C5_Witness ==
    /\ msg.type = "Toggle"
    /\ ~panicked
    /\ prev.filter = "Completed"
    /\ Len(prev.entries) = 3
    /\ ~prev.entries[1].completed
    /\ DisplayedAt(prev.entries, prev.filter, msg.idx) = 3
    /\ ~entries[3].completed

\* ------------------------------------------------------------------- C6
\* C6: ToggleAll writes target = ~is_all_completed() (of the state before)
\* to every entry that matched the filter, and changes nothing else.
C6_ToggleAllEffect ==
    msg.type = "ToggleAll"
    => LET target == ~is_all_completed(prev.entries, prev.filter)
       IN  /\ SameShape(entries, prev.entries)
           /\ \A k \in 1..Len(prev.entries) :
                 entries[k].completed =
                    IF Matches(prev.filter, prev.entries[k])
                    THEN target
                    ELSE prev.entries[k].completed
           /\ filter = prev.filter
           /\ value = prev.value
           /\ ~panicked

C6_Witness ==
    /\ msg.type = "ToggleAll"
    /\ prev.filter = "Completed"
    /\ Len(prev.entries) = 3
    /\ Displayed(prev.entries, "Completed") = 1
    /\ \A k \in 1..Len(entries) : ~entries[k].completed

\* ------------------------------------------------------------------- C7
\* C7: ClearCompleted, under any filter, keeps exactly the entries that are
\* not completed, in order; filter and draft are unchanged.
C7_ClearCompletedEffect ==
    msg.type = "ClearCompleted"
    => /\ entries = ActiveOnly(prev.entries)
       /\ filter = prev.filter
       /\ value = prev.value
       /\ ~panicked

C7_Witness ==
    /\ msg.type = "ClearCompleted"
    /\ prev.filter = "Completed"
    /\ Len(prev.entries) = 3
    /\ Len(entries) = 1
    /\ entries[1] = prev.entries[2]

\* ------------------------------------------------------------------- C8
\* C8: ClearCompleted dispatched right after ClearCompleted changes nothing:
\* entries, filter and draft are as the first one left them.
C8_ClearCompletedIdempotent ==
    [][(msg.type = "ClearCompleted" /\ msg'.type = "ClearCompleted")
       => (/\ entries' = entries
           /\ filter' = filter
           /\ value' = value
           /\ ~panicked')]_vars

C8_Witness ==
    /\ msg.type = "ClearCompleted"
    /\ repeated
    /\ Len(entries) >= 1
    /\ value # ""
    /\ filter # "All"

\* ------------------------------------------------------------------- C9
\* C9: Add appends one entry (draft, not completed) at the end, empties the
\* draft, and leaves the earlier entries and the filter as they were.
C9_AddEffect ==
    msg.type = "Add"
    => /\ entries = Append(prev.entries,
                           [description |-> prev.value, completed |-> FALSE])
       /\ value = ""
       /\ filter = prev.filter
       /\ ~panicked

C9_Witness ==
    /\ msg.type = "Add"
    /\ prev.value = "a"
    /\ prev.filter = "Completed"
    /\ Len(prev.entries) = 2
    /\ prev.entries[1].completed
    /\ prev.entries[2].description = "b"

\* C9, the empty draft included
C9_WitnessEmptyDraft ==
    /\ msg.type = "Add"
    /\ prev.value = ""
    /\ Len(entries) >= 2
    /\ entries[Len(entries)].description = ""

\* ------------------------------------------------------------------ C10
\* C10: from the initial state, after n Add intents each preceded by
\* Update(d_k) and nothing else, total() = n and the entries are
\* (d_1, false) .. (d_n, false) in call order.
C10_AddsInCallOrder ==
    formOK
    => /\ total(entries) = Len(drafts)
       /\ \A k \in 1..Len(drafts) :
             entries[k] = [description |-> drafts[k], completed |-> FALSE]

C10_Witness ==
    /\ formOK
    /\ msg.type = "Add"
    /\ Len(drafts) = 3
    /\ drafts[1] = "b"
    /\ drafts[2] = "a"
    /\ drafts[3] = ""

\* ------------------------------------------------------------------ C11
\* C11: for every filter mode the filtered view handed to the renderer holds
\* exactly the entries that match the mode, in storage order, numbered
\* 0..k-1 consecutively.
C11_ViewIsFilteredSubsequence ==
    \A f \in Filter :
        LET v == view_entries(entries, f)
            matching == SelectSeq(entries, LAMBDA e : Matches(f, e))
        IN  /\ Len(v) = Len(matching)
            /\ \A i \in 1..Len(v) : v[i] = <<i - 1, matching[i]>>

C11_Witness ==
    /\ filter = "Completed"
    /\ Len(entries) = 3
    /\ ~entries[1].completed
    /\ entries[2].completed
    /\ ~entries[3].completed
    /\ view_entries(entries, filter) = <<<<0, entries[2]>>>>

\* ------------------------------------------------------------------ C12
\* C12: is_all_completed() is true exactly when the entries matching the
\* current filter are non-empty and all completed; false for an empty subset.
C12_IsAllCompleted ==
    is_all_completed(entries, filter)
        <=> /\ \E k \in 1..Len(entries) : Matches(filter, entries[k])
            /\ \A k \in 1..Len(entries) :
                  Matches(filter, entries[k]) => entries[k].completed

C12_Witness ==
    /\ filter = "Active"
    /\ Len(entries) >= 2
    /\ \A k \in 1..Len(entries) : entries[k].completed
    /\ ~is_all_completed(entries, filter)

\* ------------------------------------------------------------------ C13
\* C13: the counts the renderer shows are total() = number of all entries and
\* the active count ("item(s) left") = number of entries not completed, so
\* that total() = active count + number of completed entries.
C13_Counts ==
    LET nActive == Cardinality({k \in 1..Len(entries) : ~entries[k].completed})
        nCompleted == Cardinality({k \in 1..Len(entries) : entries[k].completed})
    IN  /\ total(entries) = Len(entries)
        /\ view_todo_count(entries) = nActive
        /\ total(entries) = view_todo_count(entries) + nCompleted

\* ------------------------------------------------------------------ C14
\* C14: SetFilter(mode) changes only the filter and Update(text) changes only
\* the draft; the entry sequence is unchanged by both.
C14_FilterAndDraftFrame ==
    /\ msg.type = "SetFilter"
       => /\ filter = msg.filter
          /\ entries = prev.entries
          /\ value = prev.value
          /\ ~panicked
    /\ msg.type = "Update"
       => /\ value = msg.val
          /\ entries = prev.entries
          /\ filter = prev.filter
          /\ ~panicked

C14_Witness ==
    /\ msg.type = "SetFilter"
    /\ filter = "Active"
    /\ prev.filter = "Completed"
    /\ value = "a"
    /\ Len(entries) = 3
    /\ entries[1].completed
    /\ ~entries[2].completed

\* ------------------------------------------------------------------ C15
\* C15: when Remove(i) and Toggle(i) are only dispatched with an index the
\* view enumerated from the current state, update never aborts.
C15_NoAbortFromRenderedIndices == ~panicked

C15_Witness ==
    /\ msg.type \in {"Remove", "Toggle"}
    /\ ~panicked
    /\ prev.filter = "Active"
    /\ Len(prev.entries) = 3
    /\ prev.entries[1].completed
    /\ msg.idx = 1
    /\ Displayed(prev.entries, prev.filter) = 2

\* ------------------------------------------------------------------ C16
\* C16: ToggleAll under filter Active leaves every entry completed, under
\* filter Completed leaves every entry not completed; in both cases the
\* filtered view under the unchanged filter is empty right afterwards.
C16_ToggleAllUnderPartialFilter ==
    /\ (msg.type = "ToggleAll" /\ prev.filter = "Active")
       => /\ \A k \in 1..Len(entries) : entries[k].completed
          /\ filter = "Active"
          /\ Len(view_entries(entries, filter)) = 0
    /\ (msg.type = "ToggleAll" /\ prev.filter = "Completed")
       => /\ \A k \in 1..Len(entries) : ~entries[k].completed
          /\ filter = "Completed"
          /\ Len(view_entries(entries, filter)) = 0

C16_Witness ==
    /\ msg.type = "ToggleAll"
    /\ prev.filter = "Completed"
    /\ Len(prev.entries) = 3
    /\ Displayed(prev.entries, "Completed") = 2
    /\ ~prev.entries[2].completed
    /\ \A k \in 1..Len(entries) : ~entries[k].completed

\* ------------------------------------------------------------------ C17
\* C17: after ClearCompleted, and until a Toggle or ToggleAll is processed,
\* total_completed() = 0 and is_all_completed() is false under every filter.
C17_NothingCompletedAfterClear ==
    sinceClear
    => /\ total_completed(entries) = 0
       /\ view_clear_completed_count(entries) = 0
       /\ \A f \in Filter : ~is_all_completed(entries, f)

C17_Witness ==
    /\ sinceClear
    /\ msg.type = "Remove"
    /\ ~panicked
    /\ filter = "Completed"
    /\ Len(entries) = 2
    /\ entries[2].description = "b"

\* ------------------------------------------------------------------ C18
\* C18: only Add lengthens the list (by 1); only Remove (by 1) and
\* ClearCompleted (by the number of completed entries) shorten it; Toggle,
\* ToggleAll, SetFilter, Update and Nope keep number, order and descriptions;
\* Nope keeps the whole state; no step rewrites an existing description.
Descriptions(es) == [k \in 1..Len(es) |-> es[k].description]

C18_StepFrame ==
    /\ Len(entries) > Len(prev.entries)
       => msg.type = "Add" /\ Len(entries) = Len(prev.entries) + 1
    /\ Len(entries) < Len(prev.entries)
       => \/ msg.type = "Remove" /\ Len(entries) = Len(prev.entries) - 1
          \/ /\ msg.type = "ClearCompleted"
             /\ Len(entries) + Cardinality({k \in 1..Len(prev.entries) :
                                               prev.entries[k].completed})
                   = Len(prev.entries)
    /\ msg.type \in {"Toggle", "ToggleAll", "SetFilter", "Update", "Nope"}
       => SameShape(entries, prev.entries)
    /\ msg.type = "Nope"
       => entries = prev.entries /\ filter = prev.filter /\ value = prev.value
    /\ msg.type = "Add"
       => SubSeq(Descriptions(entries), 1, Len(prev.entries))
             = Descriptions(prev.entries)
    /\ (msg.type = "Remove" /\ ~panicked)
       => \E k \in 1..Len(prev.entries) :
             Descriptions(entries) = Without(Descriptions(prev.entries), k)
    /\ (msg.type = "Remove" /\ panicked)
       => entries = prev.entries
    /\ msg.type = "ClearCompleted"
       => Descriptions(entries) = Descriptions(ActiveOnly(prev.entries))

C18_Witness ==
    /\ msg.type = "ClearCompleted"
    /\ Len(prev.entries) = 3
    /\ Len(entries) = 2
    /\ prev.entries[2].completed
    /\ entries[1].description = "a"
    /\ entries[2].description = "b"

\* C18, the step that changes nothing
C18_WitnessNope ==
    /\ msg.type = "Nope"
    /\ value = "b"
    /\ filter = "Active"
    /\ Len(entries) = 3

====
